---- MODULE Spec2Model ----
(***************************************************************************)
(* Deployment and verification scripts of the LensHub system.              *)
(*                                                                         *)
(*   scripts/helpers/custom_verification.py : get_verification_info,       *)
(*                                             publish_source              *)
(*   scripts/full_deploy.py                 : main                         *)
(*                                                                         *)
(* Text that the code slices, searches or lower-cases is a sequence of     *)
(* one-character strings; text that is only passed around is a string.     *)
(* An f-string is the tuple of its parts.                                  *)
(***************************************************************************)
EXTENDS Integers, Sequences, FiniteSets, TLC

(***************************************************************************)
(* Python string primitives                                                *)
(***************************************************************************)
None == "None"

UpperLetters ==
    <<"A","B","C","D","E","F","G","H","I","J","K","L","M",
      "N","O","P","Q","R","S","T","U","V","W","X","Y","Z">>

LowerLetters ==
    <<"a","b","c","d","e","f","g","h","i","j","k","l","m",
      "n","o","p","q","r","s","t","u","v","w","x","y","z">>

\* str.lower() on one character
LowerChar(c) ==
    IF \E k \in 1..26 : UpperLetters[k] = c
    THEN LowerLetters[CHOOSE k \in 1..26 : UpperLetters[k] = c]
    ELSE c

\* str.upper() on one character
UpperChar(c) ==
    IF \E k \in 1..26 : LowerLetters[k] = c
    THEN UpperLetters[CHOOSE k \in 1..26 : LowerLetters[k] = c]
    ELSE c

\* str.lower()
NoLower(s) == s

Lower(s) == [k \in 1..Len(s) |-> LowerChar(s[k])]

\* str.upper()
Upper(s) == [k \in 1..Len(s) |-> UpperChar(s[k])]

\* `sub in s`
Contains(s, sub) ==
    \E k \in 0..(Len(s) - Len(sub)) : SubSeq(s, k + 1, k + Len(sub)) = sub

\* s.startswith(sub)
StartsWith(s, sub) ==
    /\ Len(sub) <= Len(s)
    /\ SubSeq(s, 1, Len(sub)) = sub

\* s[n:] for n >= 0
SliceFrom(s, n) == IF n >= Len(s) THEN <<>> ELSE SubSeq(s, n + 1, Len(s))

RECURSIVE Join(_)
\* "".join(parts)
Join(parts) == IF parts = <<>> THEN <<>> ELSE Head(parts) \o Join(Tail(parts))

(***************************************************************************)
(* License codes (https://etherscan.io/contract-license-types)             *)
(***************************************************************************)
kw_unlicensed == <<"u","n","l","i","c","e","n","s","e","d">>
kw_mit        == <<"m","i","t">>
kw_agpl       == <<"a","g","p","l">>
kw_lgpl       == <<"l","g","p","l">>
kw_gpl        == <<"g","p","l">>
kw_bsd2       == <<"b","s","d","-","2","-","c","l","a","u","s","e">>
kw_bsd3       == <<"b","s","d","-","3","-","c","l","a","u","s","e">>
kw_mpl        == <<"m","p","l">>
kw_osl        == <<"o","s","l">>
kw_apache     == <<"a","p","a","c","h","e">>
kw_30         == <<"3",".","0">>
kw_21         == <<"2",".","1">>
kw_20         == <<"2",".","0">>

\* the nested choice under `elif "lgpl" in identifier`
LgplCode(identifier) ==
    IF Contains(identifier, kw_21) THEN 6
    ELSE IF Contains(identifier, kw_30) THEN 7
    ELSE 1

\* the nested choice under `elif "gpl" in identifier`, with "v3" read as 3.0
GplCodeLoose(identifier) ==
    IF Contains(identifier, kw_20) THEN 4
    ELSE IF Contains(identifier, kw_30) \/ Contains(identifier, <<"v","3">>) THEN 5
    ELSE 1

\* the nested choice under `elif "gpl" in identifier`
GplCode(identifier) ==
    IF Contains(identifier, kw_20) THEN 4
    ELSE IF Contains(identifier, kw_30) THEN 5
    ELSE 1

\* the if/elif chain over the lower-cased identifier
LicenseChain(identifier) ==
    IF Contains(identifier, kw_unlicensed) THEN 2
    ELSE IF Contains(identifier, kw_mit) THEN 3
    ELSE IF Contains(identifier, kw_agpl) /\ Contains(identifier, kw_30) THEN 13
    ELSE IF Contains(identifier, kw_lgpl) THEN LgplCode(identifier)
    ELSE IF Contains(identifier, kw_gpl) THEN GplCode(identifier)
    ELSE IF Contains(identifier, kw_bsd2) THEN 8
    ELSE IF Contains(identifier, kw_bsd3) THEN 9
    ELSE IF Contains(identifier, kw_mpl) /\ Contains(identifier, kw_20) THEN 10
    ELSE IF StartsWith(identifier, kw_osl) /\ Contains(identifier, kw_30) THEN 11
    ELSE IF Contains(identifier, kw_apache) /\ Contains(identifier, kw_20) THEN 12
    ELSE 1

\* license_code as selected from contract_info["license_identifier"]
CaseSensitiveLicenseCode(license_identifier) == LicenseChain(NoLower(license_identifier))

LicenseCode(license_identifier) == LicenseChain(Lower(license_identifier))

(***************************************************************************)
(* Bounds of the model                                                     *)
(***************************************************************************)
\* status polls answered before the model stops following the unbounded loop
MaxStatusPolls == 3

\* tokens joined into one generated license identifier
MaxTokens == 2

(***************************************************************************)
(* Inputs of publish_source: configuration, build artifact, explorer       *)
(***************************************************************************)
url_etherscan ==
    <<"h","t","t","p","s",":","/","/","a","p","i",".","e","t","h","e","r",
      "s","c","a","n",".","i","o","/","a","p","i">>

url_bscscan ==
    <<"h","t","t","p","s",":","/","/","a","p","i",".","b","s","c","s","c",
      "a","n",".","c","o","m","/","a","p","i">>

url_blockscout ==
    <<"h","t","t","p","s",":","/","/","b","l","o","c","k","s","c","o","u",
      "t",".","c","o","m","/","p","o","a","/","c","o","r","e","/","a","p","i">>

\* CONFIG.active_network: a dict whose "explorer" key may be missing
ActiveNetworks ==
    { [id |-> "development"] }
    \cup { [id |-> "live", explorer |-> u] : u \in {url_etherscan, url_bscscan, url_blockscout} }

\* dict.get(key), None when the key is missing
Get(dict, key) == IF key \in DOMAIN dict THEN dict[key] ELSE None

\* brownie's _explorer_tokens, in dict order: host fragment -> variable name
_explorer_tokens ==
    << [k |-> <<"e","t","h","e","r","s","c","a","n">>, v |-> "ETHERSCAN_TOKEN"],
       [k |-> <<"b","s","c","s","c","a","n">>,         v |-> "BSCSCAN_TOKEN"] >>

EnvTokenNames == {_explorer_tokens[k].v : k \in 1..Len(_explorer_tokens)}

\* os.environ restricted to the token variables
Environs ==
    { [ETHERSCAN_TOKEN |-> "KEY-E", BSCSCAN_TOKEN |-> "KEY-B"],
      [ETHERSCAN_TOKEN |-> "KEY-E", BSCSCAN_TOKEN |-> ""],
      [OTHER |-> "x"] }

\* self._build["language"]
Languages == {"Solidity", "Vyper", "Yul"}

\* self._build["bytecode"]: hex text without the 0x prefix
Bytecodes ==
    { <<"a","a","a","a","a","a","a","a","a","a">>,
      <<"6","0","8","0","6","0","4","0">> }

\* ABI-encoded constructor arguments appended to the creation code
CtorArgs == { <<>>, <<"b","e","e","f">>, <<"0","0","f","f">> }

\* the `input` of the first transaction the explorer lists for the address
TxInputs == { <<"0","x">> \o code \o args : code \in Bytecodes, args \in CtorArgs }

id_MIT_License      == <<"M","I","T"," ","L","i","c","e","n","s","e">>
id_GNU_GPLv3_only   == <<"G","N","U"," ","G","P","L","v","3"," ","o","n","l","y">>
id_SPDX_Unlicensed  == <<"S","P","D","X",":"," ","U","n","l","i","c","e","n","s","e","d">>
id_Weird_custom     == <<"W","e","i","r","d"," ","c","u","s","t","o","m"," ","t","e","x","t">>
id_GPL_30_only      == <<"G","P","L","-","3",".","0","-","o","n","l","y">>

\* license identifiers the specification names
NamedIdentifiers ==
    {id_MIT_License, id_GNU_GPLv3_only, id_SPDX_Unlicensed, id_Weird_custom, id_GPL_30_only}

\* fragments of SPDX identifiers
LicenseTokens ==
    { <<"G","P","L">>, <<"A">>, <<"L">>, <<"-","3",".","0">>, <<"-","2",".","0">>,
      <<"-","2",".","1">>, <<"M","I","T">>, <<"U","n","l","i","c","e","n","s","e","d">>,
      <<"B","S","D","-","2","-","C","l","a","u","s","e">>,
      <<"B","S","D","-","3","-","C","l","a","u","s","e">>,
      <<"M","P","L">>, <<"O","S","L">>, <<"A","p","a","c","h","e">>,
      <<"-","o","n","l","y">> }

\* every identifier the flattener may report in the license model
GeneratedIdentifiers ==
    { Join(toks) : toks \in UNION { [1..n -> LicenseTokens] : n \in 0..MaxTokens } }

\* an SPDX expression naming two licenses
id_AGPL_10_or_Apache_20 ==
    <<"A","G","P","L","-","1",".","0"," ","O","R"," ","A","p","a","c","h","e","-",
      "2",".","0">>

CompoundIdentifiers == {id_AGPL_10_or_Apache_20}

AllIdentifiers == NamedIdentifiers \cup CompoundIdentifiers \cup GeneratedIdentifiers

\* identifiers used when the whole workflow is explored
WorkflowIdentifiers == {id_MIT_License, id_GPL_30_only}

\* request identifiers handed out by verifysourcecode
Guids == {"guid-1", "guid-2"}

Pending == "Pending in queue"

\* a JSON string and a JSON list
JStr(text) == [str |-> text]

JList(items) == [list |-> items]

\* an HTTP response: status code, body text and, for a JSON body, its parse
HttpError == [status_code |-> 502, text |-> "Bad Gateway"]

Http200(body) == [status_code |-> 200, text |-> "json", json |-> body]

\* answers of ?module=account&action=txlist
TxlistNotReady ==
    { [status |-> "0", message |-> "No transactions found", result |-> JStr("No transactions found")],
      [status |-> "0", message |-> "NOTOK", result |-> JStr("Max rate limit reached")] }

TxlistReady ==
    { [status |-> "1", message |-> m, result |-> JList(<< [input |-> inp] >>)] :
        m \in {"OK", "OK-Missing/Invalid API Key, rate limit of 1/5sec applied"},
        inp \in TxInputs }

TxlistResponses == {HttpError} \cup {Http200(b) : b \in TxlistNotReady \cup TxlistReady}

\* answers of ?module=contract&action=verifysourcecode
VerifyResponses ==
    {HttpError}
    \cup {Http200([status |-> "1", message |-> "OK", result |-> JStr(g)]) : g \in Guids}
    \cup {Http200([status |-> "0", message |-> "NOTOK", result |-> JStr(r)]) :
            r \in {"Unable to locate ContractCode", "Contract source code already verified"}}

\* answers of ?module=contract&action=checkverifystatus
StatusResponses ==
    {HttpError}
    \cup {Http200([status |-> IF m = "OK" THEN "1" ELSE "0", message |-> m, result |-> JStr(r)]) :
            m \in {"OK", "NOTOK"},
            r \in {Pending, "Pass - Verified", "Fail - Unable to verify"}}

\* int(data["status"])
IntOfStatus(s) == CASE s = "0" -> 0 [] s = "1" -> 1

(***************************************************************************)
(* State of one run of publish_source                                      *)
(***************************************************************************)
VARIABLES
    CONFIG,                 \* [active_network]
    environ,                \* os.environ
    _build,                 \* self._build: [language, bytecode]
    _flattener,             \* self._flattener: [license]
    pc,                     \* position of the run in publish_source
    api_key,
    contract_info,          \* result of get_verification_info
    license_code,
    i,                      \* loop counter of the indexing poll
    response,               \* last HTTP response received
    data,                   \* response.json() of the last 200 response
    constructor_arguments,
    guid,
    raised,                 \* the exception that ended the run
    returned,               \* the value publish_source returned
    log                     \* every request sent to the explorer, with its answer

vvars == <<CONFIG, environ, _build, _flattener, pc, api_key, contract_info,
           license_code, i, response, data, constructor_arguments, guid,
           raised, returned, log>>

(***************************************************************************)
(* State of one run of main() in full_deploy.py                            *)
(***************************************************************************)
VARIABLES
    env,                    \* the module constants read from the environment
    mpc,                    \* index in Program of the statement to run next
    accounts,               \* brownie's accounts list
    chain,                  \* the network: [nonce, code, whitelist]
    files,                  \* the files main() reads and writes
    lenshubProject,         \* the build artifacts as project.load(".") read them
    txs,                    \* every transaction main() submitted, in order
    deployerNonce,
    governanceNonce,
    forward,                \* followNFTNonce, collectNFTNonce, hubProxyNonce and
                            \* the three addresses computed from them
    bound,                  \* local name -> address of the contract bound to it
    mraised                 \* the exception that ended main()

dvars == <<env, mpc, accounts, chain, files, lenshubProject, txs, deployerNonce, governanceNonce,
           forward, bound, mraised>>

vars == <<vvars, dvars>>

\* main() is not running
DeployIdle ==
    /\ env = None
    /\ mpc = 0
    /\ accounts = <<>>
    /\ chain = None
    /\ files = None
    /\ lenshubProject = None
    /\ txs = <<>>
    /\ deployerNonce = None
    /\ governanceNonce = None
    /\ forward = None
    /\ bound = None
    /\ mraised = None

\* the loop bound of the indexing poll
MaxIndexingLoops == 10

\* first index of sub in s, 0-based; -1 when absent (str.find)
Find(s, sub) ==
    IF Contains(s, sub)
    THEN CHOOSE k \in 0..(Len(s) - Len(sub)) :
            /\ SubSeq(s, k + 1, k + Len(sub)) = sub
            /\ \A j \in 0..(k - 1) : SubSeq(s, j + 1, j + Len(sub)) # sub
    ELSE -1

\* s[:n]
SliceTo(s, n) == IF n >= Len(s) THEN s ELSE SubSeq(s, 1, n)

\* urlparse(url).netloc
Netloc(u) ==
    LET afterScheme == SliceFrom(u, Find(u, <<"/","/">>) + 2)
        slash == Find(afterScheme, <<"/">>)
    IN  IF slash = -1 THEN afterScheme ELSE SliceTo(afterScheme, slash)

\* host[host.index(".") + 1 :]
ParentHost(host) == SliceFrom(host, Find(host, <<".">>) + 1)

\* next((v for k, v in _explorer_tokens.items() if k in url), None)
EnvToken(u) ==
    LET hits == {k \in 1..Len(_explorer_tokens) : Contains(u, _explorer_tokens[k].k)}
    IN  IF hits = {} THEN None
        ELSE _explorer_tokens[CHOOSE k \in hits : \A j \in hits : k <= j].v

\* os.getenv(name)
Getenv(name) == Get(environ, name)

\* `is not None` in place of the truth value: an empty string passes
NotNone(v) == v # None

\* truth value of an optional string
Truthy(v) == v # None /\ v # ""

Raise(type, msg) ==
    /\ pc' = "raised"
    /\ raised' = [type |-> type, msg |-> msg]

\* lines 84-105: explorer, token variable and API key
CheckConditions ==
    /\ pc = "check_conditions"
    /\ IF "explorer" \notin DOMAIN CONFIG.active_network
       THEN /\ Raise("ValueError", <<"Explorer API not set for this network">>)
            /\ UNCHANGED api_key
       ELSE LET url == CONFIG.active_network.explorer
                env_token == EnvToken(url)
            IN  IF env_token = None
                THEN /\ Raise("ValueError",
                              <<"Publishing source is only supported on ",
                                [k \in 1..Len(_explorer_tokens) |-> _explorer_tokens[k].k],
                                ",change the Explorer API">>)
                     /\ UNCHANGED api_key
                ELSE IF Truthy(Getenv(env_token))
                THEN /\ api_key' = Getenv(env_token)
                     /\ pc' = "get_verification_info"
                     /\ UNCHANGED raised
                ELSE /\ Raise("ValueError",
                              <<"An API token is required to verify contract source code. Visit https://",
                                ParentHost(Netloc(url)),
                                "/ to obtain a token, and then store it as the environment variable $",
                                env_token>>)
                     /\ UNCHANGED api_key
    /\ UNCHANGED <<CONFIG, environ, _build, _flattener, contract_info, license_code, i,
                   response, data, constructor_arguments, guid, returned, log>>
    /\ UNCHANGED dvars

\* lines 108 and 24-77: get_verification_info
GetVerificationInfo ==
    /\ pc = "get_verification_info"
    /\ LET language == _build.language
       IN  IF language = "Vyper"
           THEN /\ Raise("TypeError",
                         <<"Etherscan does not support API verification of source code for vyper contracts. You need to verify the source manually">>)
                /\ UNCHANGED contract_info
           ELSE IF language = "Solidity"
           THEN /\ contract_info' =
                        [license_identifier |-> _flattener.license,
                         bytecode_len |-> Len(_build.bytecode)]
                /\ pc' = "select_license"
                /\ UNCHANGED raised
           ELSE /\ Raise("TypeError",
                         <<"Unsupported language for source verification: ", language>>)
                /\ UNCHANGED contract_info
    /\ UNCHANGED <<CONFIG, environ, _build, _flattener, api_key, license_code, i,
                   response, data, constructor_arguments, guid, returned, log>>
    /\ UNCHANGED dvars

\* lines 110-138 and 150: license code, then the indexing poll starts
SelectLicense ==
    /\ pc = "select_license"
    /\ license_code' = LicenseCode(contract_info.license_identifier)
    /\ i' = 0
    /\ pc' = "txlist"
    /\ UNCHANGED <<CONFIG, environ, _build, _flattener, api_key, contract_info,
                   response, data, constructor_arguments, guid, raised, returned, log>>
    /\ UNCHANGED dvars

\* one request to the explorer and what came back, as the log keeps it: the
\* request, the HTTP status, the JSON status and, for the contract module,
\* the result text
Exchange(action, params, r) ==
    [action |-> action,
     params |-> params,
     status_code |-> r.status_code,
     status |-> IF r.status_code = 200 THEN r.json.status ELSE None,
     result |-> IF r.status_code = 200 /\ action # "txlist"
                THEN r.json.result.str ELSE None]

\* f"Status {response.status_code} when querying {url}: {response.text}"
StatusErrorMsg(r) ==
    <<"Status ", r.status_code, " when querying ", CONFIG.active_network.explorer,
      ": ", r.text>>

\* an HTTP failure swallowed: the loop or the run goes on as if nothing was read
IgnoreHttpError(r) == UNCHANGED <<pc, raised>>

\* lines 153-156, 193-196, 214-217: a status code other than 200 raises
OnHttpError(r) == Raise("ConnectionError", StatusErrorMsg(r))

\* line 165, read one loop late
GiveUpAfterEleven(loops) == loops > MaxIndexingLoops

\* line 165: `if i >= 10`
GiveUp(loops) == loops >= MaxIndexingLoops

\* line 158 leaving the loop on any answer
IndexedWhateverStatus(body) == TRUE

\* line 158: int(data["status"]) == 1
Indexed(body) == IntOfStatus(body.status) = 1

\* lines 151-170: one iteration of the indexing poll
TxlistPoll ==
    /\ pc = "txlist"
    /\ \E r \in TxlistResponses :
        /\ response' = r
        /\ log' = Append(log, Exchange("txlist", [page |-> 1, offset |-> 1, sort |-> "asc"], r))
        /\ IF r.status_code # 200
           THEN /\ OnHttpError(r)
                /\ UNCHANGED <<data, i>>
           ELSE /\ data' = r.json
                /\ IF Indexed(r.json)
                   THEN /\ pc' = "constructor_arguments"
                        /\ UNCHANGED <<i, raised>>
                   ELSE IF GiveUp(i)
                   THEN /\ Raise("ValueError", <<"API request failed with: ", r.json.result>>)
                        /\ UNCHANGED i
                   ELSE /\ i' = i + 1
                        /\ pc' = "txlist"
                        /\ UNCHANGED raised
    /\ UNCHANGED <<CONFIG, environ, _build, _flattener, api_key, contract_info,
                   license_code, constructor_arguments, guid, returned>>
    /\ UNCHANGED dvars

\* line 173 without the two characters of the 0x prefix
ArgumentsAfterLength(input, bytecode_len) == SliceFrom(input, bytecode_len)

\* line 173: input[bytecode_len + 2 :]
ArgumentsOf(input, bytecode_len) == SliceFrom(input, bytecode_len + 2)

\* lines 172-175: constructor arguments from the first listed transaction
ExtractConstructorArguments ==
    /\ pc = "constructor_arguments"
    /\ constructor_arguments' =
          IF data.message = "OK"
          THEN ArgumentsOf(data.result.list[1].input, contract_info.bytecode_len)
          ELSE <<>>
    /\ pc' = "verifysourcecode"
    /\ UNCHANGED <<CONFIG, environ, _build, _flattener, api_key, contract_info,
                   license_code, i, response, data, guid, raised, returned, log>>
    /\ UNCHANGED dvars

\* line 198 with the check of the answer left out
NeverRejected(body) == FALSE

\* line 198: int(data["status"]) != 1
Rejected(body) == IntOfStatus(body.status) # 1

\* lines 177-205: the submission and its answer
SubmitVerification ==
    /\ pc = "verifysourcecode"
    /\ \E r \in VerifyResponses :
        /\ response' = r
        /\ log' = Append(log, Exchange("verifysourcecode",
                                       [constructorArguements |-> constructor_arguments,
                                        licenseType |-> license_code], r))
        /\ IF r.status_code # 200
           THEN /\ OnHttpError(r)
                /\ UNCHANGED <<data, guid>>
           ELSE /\ data' = r.json
                /\ IF Rejected(r.json)
                   THEN /\ Raise("ValueError",
                                 <<"Failed to submit verification request: ", r.json.result>>)
                        /\ UNCHANGED guid
                   ELSE /\ guid' = r.json.result
                        /\ pc' = "checkverifystatus"
                        /\ UNCHANGED raised
    /\ UNCHANGED <<CONFIG, environ, _build, _flattener, api_key, contract_info,
                   license_code, i, constructor_arguments, returned>>
    /\ UNCHANGED dvars

\* number of requests of one kind sent so far
Requests(action) == Cardinality({k \in 1..Len(log) : log[k].action = action})

\* line 226: data["message"] == "OK"
Success(body) == body.message = "OK"

\* line 219 also stopping on a pending answer that carries message OK
StillPendingUnlessOk(body) == body.result = JStr(Pending) /\ body.message # "OK"

\* line 219 taking every answer for a pending one
AlwaysPending(body) == TRUE

\* line 219: data["result"] == "Pending in queue"
StillPending(body) == body.result = JStr(Pending)

\* lines 212-227: one iteration of the status poll
StatusPoll ==
    /\ pc = "checkverifystatus"
    /\ Requests("checkverifystatus") < MaxStatusPolls
    /\ \E r \in StatusResponses :
        /\ response' = r
        /\ log' = Append(log, Exchange("checkverifystatus", [guid |-> guid], r))
        /\ IF r.status_code # 200
           THEN /\ OnHttpError(r)
                /\ UNCHANGED <<data, returned>>
           ELSE /\ data' = r.json
                /\ IF StillPending(r.json)
                   THEN /\ pc' = "checkverifystatus"
                        /\ UNCHANGED <<raised, returned>>
                   ELSE /\ returned' = Success(r.json)
                        /\ pc' = "returned"
                        /\ UNCHANGED raised
    /\ UNCHANGED <<CONFIG, environ, _build, _flattener, api_key, contract_info,
                   license_code, i, constructor_arguments, guid>>
    /\ UNCHANGED dvars

(***************************************************************************)
(* Specifications of publish_source                                        *)
(***************************************************************************)
\* what publish_source is called with, and its first statement
InitInputs(identifiers) ==
    /\ CONFIG \in {[active_network |-> n] : n \in ActiveNetworks}
    /\ environ \in Environs
    /\ _build \in {[language |-> l, bytecode |-> b] : l \in Languages, b \in Bytecodes}
    /\ _flattener \in {[license |-> t] : t \in identifiers}
    /\ pc = "check_conditions"

InitVerification(identifiers) ==
    /\ InitInputs(identifiers)
    /\ api_key = None
    /\ contract_info = None
    /\ license_code = None
    /\ i = None
    /\ response = None
    /\ data = None
    /\ constructor_arguments = None
    /\ guid = None
    /\ raised = None
    /\ returned = None
    /\ log = <<>>

Init == InitVerification(WorkflowIdentifiers) /\ DeployIdle

Next ==
    \/ CheckConditions
    \/ GetVerificationInfo
    \/ SelectLicense
    \/ TxlistPoll
    \/ ExtractConstructorArguments
    \/ SubmitVerification
    \/ StatusPoll

\* a run of publish_source against an explorer that may answer anything
Spec == Init /\ [][Next]_vars

\* the same start, a local that is not assigned yet holding an arbitrary
\* value of the type it is assigned later; no statement reads it before
InitLive ==
    /\ InitInputs({id_MIT_License})
    /\ api_key = None
    /\ contract_info = [license_identifier |-> <<>>, bytecode_len |-> 0]
    /\ license_code = 1
    /\ i = 0
    /\ response = HttpError
    /\ data = [status |-> "0", message |-> "", result |-> JStr("")]
    /\ constructor_arguments = <<>>
    /\ guid = JStr("")
    /\ raised = [type |-> "", msg |-> <<>>]
    /\ returned = FALSE
    /\ log = <<>>
    /\ DeployIdle

\* the run goes on as long as a statement is left to execute: every sleep
\* returns and every request is answered (a step of Next changes the
\* position or sends a request)
SpecLive == InitLive /\ [][Next]_vars /\ WF_<<pc, Len(log)>>(Next)

InitLicense == InitVerification(AllIdentifiers) /\ DeployIdle

NextLicense ==
    \/ CheckConditions
    \/ GetVerificationInfo
    \/ SelectLicense

\* publish_source up to the selection of the license code, over many identifiers
SpecLicense == InitLicense /\ [][NextLicense]_vars

(***************************************************************************)
(* Properties of the indexing poll                                         *)
(***************************************************************************)
\* positions in the log of the requests of one kind
Sent(action) == {k \in 1..Len(log) : log[k].action = action}

\* the explorer answered request k, but has not indexed the contract yet
NotReadyAt(k) ==
    /\ log[k].action = "txlist"
    /\ log[k].status_code = 200
    /\ log[k].status # "1"

NotReadyCount == Cardinality({k \in 1..Len(log) : NotReadyAt(k)})

IndexingSucceeded == \E k \in Sent("txlist") : log[k].status = "1"

IndexingTimedOut ==
    /\ pc = "raised"
    /\ raised.type = "ValueError"
    /\ raised.msg[1] = "API request failed with: "

\* C1: the indexing poll goes on while the explorer answers status != 1 and
\* fewer than 11 requests were sent; it succeeds on the first answer with
\* status 1, which is request k+1 after k <= 10 answers that were not ready;
\* after 11 answers that were not ready it raises the ValueError that carries
\* the result of the 11th answer, and 11 requests were sent.
C1_IndexingPollCalls ==
    /\ pc = "txlist" =>
          /\ Requests("txlist") = NotReadyCount
          /\ NotReadyCount <= 10
    /\ IndexingSucceeded =>
          /\ Requests("txlist") = NotReadyCount + 1
          /\ NotReadyCount <= 10
          /\ log[NotReadyCount + 1].status = "1"
          /\ pc # "txlist"
          /\ ~IndexingTimedOut
    /\ IndexingTimedOut =>
          /\ Requests("txlist") = 11
          /\ NotReadyCount = 11
          /\ Len(log) = 11
          /\ response.status_code = 200
          /\ raised.msg = <<"API request failed with: ", response.json.result>>
    /\ NotReadyCount >= 11 => IndexingTimedOut

\* C1 witness: the explorer never indexed the contract and the poll gave up
C1_Witness_TimedOut ==
    /\ IndexingTimedOut
    /\ NotReadyCount = 11
    /\ raised.msg[2] = JStr("Max rate limit reached")

\* C2 as stated: no run sends more than 10 txlist requests
C2_AtMostTenRequests == Requests("txlist") <= 10

\* C2 amended: no run sends more than 11 txlist requests (the first and ten
\* repeats); once the 11th is answered the poll is over: it succeeded, or it
\* raised with the explorer's result, or the HTTP request failed.
C2_AtMostElevenRequests ==
    /\ Requests("txlist") <= 11
    /\ Requests("txlist") = 11 =>
          \/ IndexingSucceeded
          \/ /\ IndexingTimedOut
             /\ raised.msg[2] = response.json.result
          \/ /\ pc = "raised"
             /\ raised.type = "ConnectionError"

\* C2 witness: the 11th request is the one that finds the contract indexed
C2_Witness_EleventhSucceeds ==
    /\ Requests("txlist") = 11
    /\ IndexingSucceeded
    /\ pc = "constructor_arguments"

(***************************************************************************)
(* Properties of the license classification                                *)
(***************************************************************************)
\* the license code has been selected
LicenseSelected == pc = "txlist" /\ log = <<>>

\* C5 as stated: "GNU GPLv3 only" is classified as GPL-3.0, code 5
C5_GnuGplv3IsFive ==
    (LicenseSelected /\ _flattener.license = id_GNU_GPLv3_only) => license_code = 5

\* C5 amended: "GNU GPLv3 only" names the gpl family without the text "3.0"
\* or "2.0", so it keeps the default code 1; the identifier "GPL-3.0-only"
\* is the one classified as GPL-3.0, code 5.
C5_GnuGplv3IsDefault ==
    LicenseSelected =>
        /\ _flattener.license = id_GNU_GPLv3_only => license_code = 1
        /\ _flattener.license = id_GPL_30_only => license_code = 5

\* C5 witness: "GNU GPLv3 only" has been classified
C5_Witness_GnuGplv3 ==
    /\ LicenseSelected
    /\ _flattener.license = id_GNU_GPLv3_only
    /\ license_code = 1

\* the words the if/elif chain looks for
FamilyWords ==
    {kw_unlicensed, kw_mit, kw_agpl, kw_lgpl, kw_gpl, kw_bsd2, kw_bsd3, kw_mpl,
     kw_osl, kw_apache}

\* the identifier spells one of the family words, in any mix of cases
NamesFamily(identifier) ==
    \E w \in FamilyWords :
        \E k \in 0..(Len(identifier) - Len(w)) :
            \A j \in 1..Len(w) :
                identifier[k + j] \in {w[j], UpperChar(w[j])}

\* C6: the license code depends on the identifier alone and not on its
\* case: "MIT License" gives 3, "SPDX: Unlicensed" gives 2, and an
\* identifier that spells none of the family words ("Weird custom text")
\* gives the default 1.
C6_LicenseByIdentifier ==
    LicenseSelected =>
        /\ _flattener.license = id_MIT_License => license_code = 3
        /\ _flattener.license = id_SPDX_Unlicensed => license_code = 2
        /\ _flattener.license = id_Weird_custom => license_code = 1
        /\ ~NamesFamily(_flattener.license) => license_code = 1
        /\ \A other \in {Upper(_flattener.license), Lower(_flattener.license)} :
              license_code = LicenseCode(other)

\* C6 witness: an upper-case family word has been recognised
C6_Witness_MitLicense ==
    /\ LicenseSelected
    /\ _flattener.license = id_MIT_License
    /\ license_code = 3

(***************************************************************************)
(* Properties of the submission and of the status poll                     *)
(***************************************************************************)
\* the first transaction of the txlist answer held in data
ListedInput == data.result.list[1].input

\* C7: after an answer with status 1 and message "OK", the constructor
\* arguments are what follows the first bytecode_len + 2 characters of the
\* first transaction's input: an input "0x" + bytecode + args whose bytecode
\* has bytecode_len characters gives args; and they are what is submitted.
C7_ConstructorArguments ==
    /\ (pc = "verifysourcecode" /\ data.message = "OK") =>
          LET n == contract_info.bytecode_len + 2
          IN  /\ Len(ListedInput) >= n =>
                    /\ Len(constructor_arguments) = Len(ListedInput) - n
                    /\ SubSeq(ListedInput, 1, n) \o constructor_arguments = ListedInput
              /\ Len(ListedInput) < n => constructor_arguments = <<>>
              /\ \A code \in Bytecodes, args \in CtorArgs :
                    (Len(code) = contract_info.bytecode_len
                       /\ ListedInput = <<"0","x">> \o code \o args)
                    => constructor_arguments = args
              /\ (contract_info.bytecode_len = 10
                    /\ ListedInput = <<"0","x","a","a","a","a","a","a","a","a","a","a",
                                       "b","e","e","f">>)
                    => constructor_arguments = <<"b","e","e","f">>
    /\ \A k \in Sent("verifysourcecode") :
          log[k].params.constructorArguements = constructor_arguments

\* C7 witness: "beef" extracted after a bytecode of 10 characters, and submitted
C7_Witness_Beef ==
    /\ Requests("verifysourcecode") = 1
    /\ contract_info.bytecode_len = 10
    /\ constructor_arguments = <<"b","e","e","f">>
    /\ log[Len(log)].params.constructorArguements = <<"b","e","e","f">>

\* the last exchange in the log is a status check answered with this result
LastStatusAnswer(pending) ==
    /\ log # <<>>
    /\ log[Len(log)].action = "checkverifystatus"
    /\ log[Len(log)].status_code = 200
    /\ (log[Len(log)].result = Pending) = pending

\* C8: a status check answered "Pending in queue" leaves the run polling;
\* every status check carries the GUID the submission returned; the first
\* answer with another result ends the run, which returns whether that
\* answer's message is exactly "OK".
C8_StatusPoll ==
    /\ \A k \in Sent("checkverifystatus") :
          /\ \E j \in Sent("verifysourcecode") :
                j < k /\ log[k].params.guid = JStr(log[j].result)
          /\ k < Len(log) => (log[k].status_code = 200 /\ log[k].result = Pending)
    /\ LastStatusAnswer(TRUE) => pc = "checkverifystatus"
    /\ LastStatusAnswer(FALSE) =>
          /\ pc = "returned"
          /\ returned = (response.json.message = "OK")
    /\ pc = "returned" => LastStatusAnswer(FALSE)

\* C8 witness: two pending answers, then a verdict whose message is "OK"
C8_Witness_PendingTwice ==
    /\ pc = "returned"
    /\ Requests("checkverifystatus") = 3
    /\ returned = TRUE

\* C9: a response whose HTTP status is not 200 is the last exchange of the
\* run, which ended with a ConnectionError; a request is repeated only after
\* a 200 answer that was not ready (txlist status != 1, or result "Pending
\* in queue").
C9_HttpErrorIsFatal ==
    /\ \A k \in 1..Len(log) :
          log[k].status_code # 200 =>
              /\ k = Len(log)
              /\ pc = "raised"
              /\ raised.type = "ConnectionError"
    /\ \A k \in 1..(Len(log) - 1) :
          log[k + 1].action = log[k].action =>
              /\ log[k].status_code = 200
              /\ \/ log[k].action = "txlist" /\ log[k].status # "1"
                 \/ log[k].action = "checkverifystatus" /\ log[k].result = Pending

\* C9 witness: the status check failed at HTTP level after a pending answer
C9_Witness_HttpErrorInStatusPoll ==
    /\ Requests("checkverifystatus") = 2
    /\ log[Len(log)].action = "checkverifystatus"
    /\ log[Len(log)].status_code = 502
    /\ pc = "raised"

\* C10: a verifysourcecode answer with HTTP status 200 and status != 1 ends
\* the run with the ValueError that carries the answer's result text, and no
\* checkverifystatus request is sent.
C10_RejectedSubmission ==
    \A k \in Sent("verifysourcecode") :
        (log[k].status_code = 200 /\ log[k].status # "1") =>
            /\ k = Len(log)
            /\ pc = "raised"
            /\ raised = [type |-> "ValueError",
                         msg |-> <<"Failed to submit verification request: ",
                                   JStr(log[k].result)>>]
            /\ raised.msg[2] = response.json.result
            /\ Requests("checkverifystatus") = 0

\* C10 witness: the explorer refused the submission
C10_Witness_Rejected ==
    /\ pc = "raised"
    /\ Requests("verifysourcecode") = 1
    /\ log[Len(log)].status = "0"
    /\ raised.msg[2] = JStr("Unable to locate ContractCode")

(***************************************************************************)
(* full_deploy.py: constants, inputs and the network                       *)
(***************************************************************************)
\* largest transaction count an account may start the run with
MaxStartNonce == 1

TREASURY_FEE_BPS == 50

LENS_HUB_NFT_NAME == "Lens Protocol Profiles"

LENS_HUB_NFT_SYMBOL == "LPP"

\* strtobool(os.getenv("CONTRACT_VERIFICATION", "True"))
Strtobool(text) == text \in {"y", "yes", "t", "true", "on", "1", "True"}

\* lines 23-35: the module constants, from the process environment
ModuleConstants(network_type, verification, keys) ==
    [NETWORK_ID |-> "live",
     NETWORK_TYPE |-> network_type,
     CONTRACT_VERIFICATION |->
        IF network_type = "local" THEN FALSE ELSE Strtobool(verification),
     DEPLOYER_PRIVATE_KEY |-> keys[1],
     GOVERNANCE_PRIVATE_KEY |-> keys[2],
     TREASURY_PRIVATE_KEY |-> keys[3]]

\* the process environments a run may start in
Environments ==
    { ModuleConstants(t, v, k) :
        t \in {"local", "testnet"},
        v \in {"True", "False"},
        k \in { <<"key-d", "key-g", "key-t">>, <<None, None, None>> } }

\* accounts the node unlocks by itself: a local development node only
NodeAccounts(network_type) ==
    IF network_type = "local" THEN <<"node-0", "node-1", "node-2">> ELSE <<>>

\* accounts.add(private_key): the account of the key
AccountOf(private_key) == private_key

AllAccounts == {"node-0", "node-1", "node-2", "key-d", "key-g", "key-t"}

\* an address is what it was derived from: an account, or sender and nonce
AccountAddress(account) == [account |-> account]

\* the address the network gives a contract created by `sender` with `nonce`
CreateAddress(sender, nonce) == [sender |-> sender, nonce |-> nonce]

\* Account.get_deployment_address(nonce)
GetDeploymentAddress(account, nonce) == CreateAddress(account, nonce)

HexDigits == <<"0","1","2","3","4","5","6","7","8","9","A","B","C","D","E","F">>

AccountDigit(account) ==
    CASE account = "node-0" -> "a" [] account = "node-1" -> "B"
      [] account = "node-2" -> "c" [] account = "key-d" -> "D"
      [] account = "key-g" -> "e" [] account = "key-t" -> "F"

\* contract.address: "0x" and 40 hexadecimal digits in mixed (checksum) case,
\* different for different (sender, nonce)
HexAddress(address) ==
    <<"0","x">>
    \o <<"5","F","b","D","B","2","3","1","5","6","7","8","a","f","e","c","b","3","6",
         "7","f","0","3","2","d","9","3","F","6","4","2","f","6","4","1","8","0">>
    \o <<AccountDigit(address.sender),
         HexDigits[(address.nonce \div 16) + 1],
         HexDigits[(address.nonce % 16) + 1]>>

\* s.replace(old, new, 1): the first occurrence only
ReplaceFirst(s, old, new) ==
    LET at == Find(s, old)
    IN  IF at = -1 THEN s
        ELSE SliceTo(s, at) \o new \o SliceFrom(s, at + Len(old))

RECURSIVE Replace(_, _, _)
\* s.replace(old, new): every occurrence, left to right, without overlap
Replace(s, old, new) ==
    LET at == Find(s, old)
    IN  IF at = -1 THEN s
        ELSE SliceTo(s, at) \o new \o Replace(SliceFrom(s, at + Len(old)), old, new)

\* the placeholders of PublishingLogic, InteractionLogic, ProfileTokenURILogic
PublishingLogicToken ==
    <<"_","_","$","1","f","7","c","b","a","c","b","1","f","9","f","5","d","3","2","3",
      "b","8","5","b","0","4","8","7","8","3","8","4","2","6","c","8","d","$","_","_">>

InteractionLogicToken ==
    <<"_","_","$","1","e","6","8","a","6","0","a","e","0","4","4","4","6","9","9","f",
      "e","0","8","1","9","2","a","2","9","e","c","c","0","9","9","3","0","$","_","_">>

ProfileTokenURILogicToken ==
    <<"_","_","$","f","9","0","6","f","2","0","d","7","9","7","1","1","6","e","e","8",
      "9","e","d","7","9","9","4","5","0","4","8","c","6","a","d","3","6","$","_","_">>

hex_a == <<"6","0","8","0","6","0","4","0">>

hex_b == <<"5","b","6","0","0","0","8","0","f","d">>

\* runtime bytecode of the LensHub artifact as the compiler wrote it
LensHubRuntimeCodes ==
    { hex_a \o hex_b,
      hex_a \o PublishingLogicToken \o hex_b,
      PublishingLogicToken \o hex_a \o PublishingLogicToken,
      hex_a \o PublishingLogicToken \o InteractionLogicToken \o hex_b
            \o ProfileTokenURILogicToken,
      hex_b \o ProfileTokenURILogicToken \o hex_a \o InteractionLogicToken
            \o hex_a \o ProfileTokenURILogicToken }

\* a path is the tuple of the parts it is formatted from
ArtifactPath == <<"build/contracts/LensHub.json">>

OtherArtifactPath == <<"build/contracts/FollowNFT.json">>

\* f"build/lenshubAddresses-{NETWORK_ID}.json"
AddressesPath(network_id) == <<"build/lenshubAddresses-", network_id, ".json">>

\* build/contracts/LensHub.json with this runtime bytecode
LensHubArtifact(runtime) ==
    [contractName |-> "LensHub",
     bytecode |-> <<"6","0","8","0","f","3","f","e">> \o runtime,
     deployedBytecode |-> runtime,
     sourcePath |-> "contracts/core/LensHub.sol",
     language |-> "Solidity",
     compiler |-> [version |-> "0.8.10", optimizer |-> [enabled |-> TRUE, runs |-> 200]]]

\* the address no contract has
NoAddress == [unbound |-> TRUE]

\* the local names main() binds deployed contracts to
LocalNames ==
    {"moduleGlobals", "publishingLogic", "interactionLogic", "profileTokenURILogic",
     "lensHubImpl", "proxy", "lensHub", "lensPeriphery", "currency",
     "feeCollectModule", "limitedFeeCollectModule", "timedFeeCollectModule",
     "limitedTimedFeeCollectModule", "revertCollectModule", "freeCollectModule",
     "feeFollowModule", "profileFollowModule", "revertFollowModule",
     "followerOnlyReferenceModule", "uiDataProvider", "profileCreationProxy"}

(***************************************************************************)
(* full_deploy.py: the statements of main(), in source order               *)
(***************************************************************************)
\* Contract.deploy(*args, {"from": deployer, "nonce": deployerNonce}); `var`
\* is the local name the result is bound to, `publish` whether the call
\* passes publish_source=CONTRACT_VERIFICATION
DeployStmt(contract, var, args, publish) ==
    [op |-> "deploy", contract |-> contract, var |-> var, args |-> args,
     publish |-> publish]

\* target.method(arg, False, ...): the allow flag cleared
CallStmtDisallow(target, method, arg) ==
    [op |-> "call", target |-> target, method |-> method, arg |-> arg,
     allow |-> FALSE]

\* target.method(arg, True, {"from": governance, "nonce": governanceNonce})
CallStmt(target, method, arg) ==
    [op |-> "call", target |-> target, method |-> method, arg |-> arg,
     allow |-> TRUE]

Program ==
    << [op |-> "connect"],                                                   \* 44-48
       [op |-> "accounts"],                                                  \* 51-65
       [op |-> "deployer_nonce"],                                            \* 68
       DeployStmt("ModuleGlobals", "moduleGlobals",
                  <<"governance.address", "treasuryAddress", "TREASURY_FEE_BPS">>,
                  TRUE),                                                     \* 73-80
       DeployStmt("PublishingLogic", "publishingLogic", <<>>, TRUE),         \* 84-87
       DeployStmt("InteractionLogic", "interactionLogic", <<>>, TRUE),       \* 89-92
       DeployStmt("ProfileTokenURILogic", "profileTokenURILogic", <<>>, TRUE), \* 94-97
       [op |-> "patch"],                                                     \* 100-120
       [op |-> "precompute"],                                                \* 123-129
       DeployStmt("LensHub", "lensHubImpl",
                  <<"followNFTImplAddress", "collectNFTImplAddress">>, TRUE), \* 134-140
       DeployStmt("FollowNFT", None, <<"hubProxyAddress">>, TRUE),           \* 143-148
       DeployStmt("CollectNFT", None, <<"hubProxyAddress">>, TRUE),          \* 150-155
       DeployStmt("TransparentUpgradeableProxy", "proxy",
                  <<"lensHubImpl", "proxyAdminAddress", "data_lh_init">>,
                  FALSE),                                                    \* 158-172
       DeployStmt("LensPeriphery", "lensPeriphery", <<"lensHub">>, FALSE),   \* 175-179
       DeployStmt("Currency", "currency", <<>>, FALSE),                      \* 183-186
       DeployStmt("FeeCollectModule", "feeCollectModule",
                  <<"lensHub", "moduleGlobals">>, FALSE),                    \* 190-195
       DeployStmt("LimitedFeeCollectModule", "limitedFeeCollectModule",
                  <<"lensHub", "moduleGlobals">>, FALSE),                    \* 198-203
       DeployStmt("TimedFeeCollectModule", "timedFeeCollectModule",
                  <<"lensHub", "moduleGlobals">>, FALSE),                    \* 206-211
       DeployStmt("LimitedTimedFeeCollectModule", "limitedTimedFeeCollectModule",
                  <<"lensHub", "moduleGlobals">>, FALSE),                    \* 214-219
       DeployStmt("RevertCollectModule", "revertCollectModule", <<>>, FALSE), \* 222-225
       DeployStmt("FreeCollectModule", "freeCollectModule", <<"lensHub">>, FALSE), \* 228-232
       DeployStmt("FeeFollowModule", "feeFollowModule",
                  <<"lensHub", "moduleGlobals">>, FALSE),                    \* 236-241
       DeployStmt("ProfileFollowModule", "profileFollowModule",
                  <<"lensHub">>, FALSE),                                     \* 244-248
       DeployStmt("RevertFollowModule", "revertFollowModule",
                  <<"lensHub">>, FALSE),                                     \* 251-255
       DeployStmt("FollowerOnlyReferenceModule", "followerOnlyReferenceModule",
                  <<"lensHub">>, FALSE),                                     \* 259-263
       DeployStmt("UIDataProvider", "uiDataProvider", <<"lensHub">>, FALSE), \* 267-271
       DeployStmt("ProfileCreationProxy", "profileCreationProxy",
                  <<"profileCreatorAddress", "lensHub">>, FALSE),            \* 274-279
       [op |-> "governance_nonce"],                                          \* 283
       CallStmt("lensHub", "whitelistCollectModule", "feeCollectModule"),    \* 285-290
       CallStmt("lensHub", "whitelistCollectModule", "limitedFeeCollectModule"), \* 292-297
       CallStmt("lensHub", "whitelistCollectModule", "timedFeeCollectModule"), \* 299-304
       CallStmt("lensHub", "whitelistCollectModule",
                "limitedTimedFeeCollectModule"),                             \* 306-311
       CallStmt("lensHub", "whitelistCollectModule", "revertCollectModule"), \* 313-318
       CallStmt("lensHub", "whitelistCollectModule", "freeCollectModule"),   \* 320-325
       CallStmt("lensHub", "whitelistFollowModule", "feeFollowModule"),      \* 328-331
       CallStmt("lensHub", "whitelistFollowModule", "profileFollowModule"),  \* 333-338
       CallStmt("lensHub", "whitelistFollowModule", "revertFollowModule"),   \* 340-345
       CallStmt("lensHub", "whitelistReferenceModule",
                "followerOnlyReferenceModule"),                              \* 348-353
       CallStmt("moduleGlobals", "whitelistCurrency", "currency"),           \* 357-362
       CallStmt("lensHub", "whitelistProfileCreator", "profileCreationProxy"), \* 366-371
       [op |-> "addresses"] >>                                               \* 373-399

\* lines 62-65
deployer == accounts[1]

governance == accounts[2]

treasuryAddress == AccountAddress(accounts[3])

proxyAdminAddress == AccountAddress(deployer)

profileCreatorAddress == AccountAddress(deployer)

\* lines 158-162: the encoded call of initialize(name, symbol, governance)
data_lh_init ==
    [initialize |-> <<LENS_HUB_NFT_NAME, LENS_HUB_NFT_SYMBOL, AccountAddress(governance)>>]

\* the value of an argument expression of main() in the current state
Resolve(expr) ==
    CASE expr = "governance.address" -> AccountAddress(governance)
      [] expr = "treasuryAddress" -> treasuryAddress
      [] expr = "TREASURY_FEE_BPS" -> [number |-> TREASURY_FEE_BPS]
      [] expr = "proxyAdminAddress" -> proxyAdminAddress
      [] expr = "profileCreatorAddress" -> profileCreatorAddress
      [] expr = "data_lh_init" -> data_lh_init
      [] expr = "followNFTImplAddress" -> forward.followNFTImplAddress
      [] expr = "collectNFTImplAddress" -> forward.collectNFTImplAddress
      [] expr = "hubProxyAddress" -> forward.hubProxyAddress
      [] OTHER -> bound[expr]

\* the statement main() is about to run
Stmt == Program[mpc]

Running == mpc \in 1..Len(Program)

\* an exception leaves main(): the run is over
MRaise(type) ==
    /\ mraised' = type
    /\ mpc' = Len(Program) + 2

\* `nonce += 1` forgotten
SameNonce(nonce) == nonce

\* `deployerNonce += 1`, `governanceNonce += 1`
NextNonce(nonce) == nonce + 1

\* line 123 taking the hub implementation's own nonce
FollowNFTNonceEarly(nonce) == nonce

\* line 123
FollowNFTNonce(nonce) == nonce + 1

\* line 124
CollectNFTNonce(nonce) == nonce + 2

\* line 125 counting one deployment too many
HubProxyNonceLate(nonce) == nonce + 4

\* line 125
HubProxyNonce(nonce) == nonce + 3

\* address.replace("0x", "").lower()
LinkValue(address) == Lower(Replace(HexAddress(address), <<"0","x">>, <<>>))

\* lines 101-118: the three replacements on the runtime bytecode
PatchedBytecode(_bytecode_lh) ==
    Replace(
        Replace(
            Replace(_bytecode_lh, PublishingLogicToken, LinkValue(bound["publishingLogic"])),
            InteractionLogicToken, LinkValue(bound["interactionLogic"])),
        ProfileTokenURILogicToken, LinkValue(bound["profileTokenURILogic"]))

\* lines 373-395: the dict that is written out
lenshubAddresses ==
    [role \in {"lensHub proxy", "lensHub impl:", "publishing logic lib",
               "interaction logic lib", "follow NFT impl", "collect NFT impl",
               "currency", "lens periphery", "module globals", "fee collect module",
               "limited fee collect module", "timed fee collect module",
               "limited timed fee collect module", "revert collect module",
               "free collect module", "fee follow module", "profile follow module",
               "revert follow module", "follower only reference module",
               "UI data provider", "Profile creation proxy"} |->
        CASE role = "lensHub proxy" -> bound["lensHub"]
          [] role = "lensHub impl:" -> bound["lensHubImpl"]
          [] role = "publishing logic lib" -> bound["publishingLogic"]
          [] role = "interaction logic lib" -> bound["interactionLogic"]
          [] role = "follow NFT impl" -> forward.followNFTImplAddress
          [] role = "collect NFT impl" -> forward.collectNFTImplAddress
          [] role = "currency" -> bound["currency"]
          [] role = "lens periphery" -> bound["lensPeriphery"]
          [] role = "module globals" -> bound["moduleGlobals"]
          [] role = "fee collect module" -> bound["feeCollectModule"]
          [] role = "limited fee collect module" -> bound["limitedFeeCollectModule"]
          [] role = "timed fee collect module" -> bound["timedFeeCollectModule"]
          [] role = "limited timed fee collect module" ->
                bound["limitedTimedFeeCollectModule"]
          [] role = "revert collect module" -> bound["revertCollectModule"]
          [] role = "free collect module" -> bound["freeCollectModule"]
          [] role = "fee follow module" -> bound["feeFollowModule"]
          [] role = "profile follow module" -> bound["profileFollowModule"]
          [] role = "revert follow module" -> bound["revertFollowModule"]
          [] role = "follower only reference module" ->
                bound["followerOnlyReferenceModule"]
          [] role = "UI data provider" -> bound["uiDataProvider"]
          [] role = "Profile creation proxy" -> bound["profileCreationProxy"]]

(***************************************************************************)
(* full_deploy.py: the actions of main()                                   *)
(***************************************************************************)
\* lines 44-48: network.connect, or ConnectionError
Connect ==
    /\ Running /\ Stmt.op = "connect"
    /\ \E is_connected \in BOOLEAN :
          IF is_connected
          THEN mpc' = mpc + 1 /\ UNCHANGED mraised
          ELSE MRaise("ConnectionError")
    /\ UNCHANGED <<env, accounts, chain, files, lenshubProject, txs, deployerNonce,
                   governanceNonce, forward, bound>>
    /\ UNCHANGED vvars

\* the keys that are set, in the order of the list of lines 51-55
ConfiguredKeys ==
    SelectSeq(<<env.DEPLOYER_PRIVATE_KEY, env.GOVERNANCE_PRIVATE_KEY,
                env.TREASURY_PRIVATE_KEY>>,
              LAMBDA key : key # None)

\* lines 51-65: accounts.add for every key that is set, project.load,
\* and the first three accounts taken as deployer, governance and treasury
LoadAccounts ==
    /\ Running /\ Stmt.op = "accounts"
    /\ accounts' = accounts \o [k \in 1..Len(ConfiguredKeys) |-> AccountOf(ConfiguredKeys[k])]
    /\ lenshubProject' = [LensHub |-> files[ArtifactPath]]
    /\ IF Len(accounts') < 3
       THEN MRaise("IndexError")
       ELSE mpc' = mpc + 1 /\ UNCHANGED mraised
    /\ UNCHANGED <<env, chain, files, txs, deployerNonce, governanceNonce, forward, bound>>
    /\ UNCHANGED vvars

\* web3.eth.getTransactionCount(address)
GetTransactionCount(account) == chain.nonce[account]

\* line 68
ReadDeployerNonce ==
    /\ Running /\ Stmt.op = "deployer_nonce"
    /\ deployerNonce' = GetTransactionCount(deployer)
    /\ mpc' = mpc + 1
    /\ UNCHANGED <<env, accounts, chain, files, lenshubProject, txs, governanceNonce,
                   forward, bound, mraised>>
    /\ UNCHANGED vvars

\* a submitted transaction as txs keeps it: with what became of it
Outcome(tx, status) ==
    [field \in DOMAIN tx \cup {"status"} |->
        IF field = "status" THEN status ELSE tx[field]]

\* the network counts one more transaction of the sender
Mined(sender) == [chain EXCEPT !.nonce[sender] = @ + 1]

\* the creation code a deployment sends, where the model keeps the artifact
CreationCode(contract) ==
    IF contract \in DOMAIN lenshubProject
    THEN lenshubProject[contract].bytecode
    ELSE <<>>

\* a reverted transaction passing for a successful one
NeverReverts(status) == FALSE

\* the mined transaction reverted: brownie raises VirtualMachineError out of
\* the deploy or the call that sent it
Reverts(status) == status = "reverted"

\* one Contract.deploy(...) statement: the transaction is submitted with the
\* local counter as its nonce; the network rejects a nonce that is not the
\* sender's transaction count; a mined transaction may revert; brownie
\* raises on either and, when asked to publish the source, when that fails
Deploy ==
    /\ Running /\ Stmt.op = "deploy"
    /\ LET tx == [from |-> deployer,
                  nonce |-> deployerNonce,
                  op |-> "deploy",
                  contract |-> Stmt.contract,
                  code |-> CreationCode(Stmt.contract),
                  args |-> [k \in 1..Len(Stmt.args) |-> Resolve(Stmt.args[k])]]
           address == CreateAddress(deployer, GetTransactionCount(deployer))
       IN  IF tx.nonce # GetTransactionCount(deployer)
           THEN /\ txs' = Append(txs, Outcome(tx, "rejected"))
                /\ MRaise("ValueError: nonce")
                /\ UNCHANGED <<chain, bound, deployerNonce>>
           ELSE \E status \in {"mined", "reverted", "unpublished"} :
                    /\ status = "unpublished" => (Stmt.publish /\ env.CONTRACT_VERIFICATION)
                    /\ txs' = Append(txs, Outcome(tx, status))
                    /\ IF Reverts(status)
                       THEN /\ chain' = Mined(deployer)
                            /\ MRaise("VirtualMachineError")
                            /\ UNCHANGED <<bound, deployerNonce>>
                       ELSE /\ chain' = [Mined(deployer) EXCEPT !.code =
                                            @ \cup {[address |-> address,
                                                     contract |-> tx.contract,
                                                     code |-> tx.code,
                                                     args |-> tx.args]}]
                            /\ IF status = "unpublished"
                               THEN /\ MRaise("publish_source")
                                    /\ UNCHANGED <<bound, deployerNonce>>
                               ELSE /\ bound' =
                                        [n \in LocalNames |->
                                            IF n = Stmt.var THEN address
                                            ELSE IF Stmt.var = "proxy" /\ n = "lensHub"
                                            THEN address
                                            ELSE bound[n]]
                                    /\ deployerNonce' = NextNonce(deployerNonce)
                                    /\ mpc' = mpc + 1
                                    /\ UNCHANGED mraised
    /\ UNCHANGED <<env, accounts, files, lenshubProject, governanceNonce, forward>>
    /\ UNCHANGED vvars

\* an assignment that lands on the creation bytecode as well
SetItemAndBytecode(d, key, value) == [d EXCEPT ![key] = value, !.bytecode = value]

\* line 119, d[key] = value on a dict that has the key
SetItem(d, key, value) == [d EXCEPT ![key] = value]

\* lines 100-120: the artifact is read, its deployedBytecode patched, and
\* the whole dict written back to the same file
PatchLensHubBytecode ==
    /\ Running /\ Stmt.op = "patch"
    /\ LET lhcjson == files[ArtifactPath]
           _bytecode_lh == PatchedBytecode(lhcjson.deployedBytecode)
       IN  files' = [files EXCEPT ![ArtifactPath] =
                        SetItem(lhcjson, "deployedBytecode", _bytecode_lh)]
    /\ mpc' = mpc + 1
    /\ UNCHANGED <<env, accounts, chain, lenshubProject, txs, deployerNonce,
                   governanceNonce, forward, bound, mraised>>
    /\ UNCHANGED vvars

\* lines 123-129
PrecomputeAddresses ==
    /\ Running /\ Stmt.op = "precompute"
    /\ LET followNFTNonce == FollowNFTNonce(deployerNonce)
           collectNFTNonce == CollectNFTNonce(deployerNonce)
           hubProxyNonce == HubProxyNonce(deployerNonce)
       IN  forward' =
              [followNFTNonce |-> followNFTNonce,
               collectNFTNonce |-> collectNFTNonce,
               hubProxyNonce |-> hubProxyNonce,
               followNFTImplAddress |-> GetDeploymentAddress(deployer, followNFTNonce),
               collectNFTImplAddress |-> GetDeploymentAddress(deployer, collectNFTNonce),
               hubProxyAddress |-> GetDeploymentAddress(deployer, hubProxyNonce)]
    /\ mpc' = mpc + 1
    /\ UNCHANGED <<env, accounts, chain, files, lenshubProject, txs, deployerNonce,
                   governanceNonce, bound, mraised>>
    /\ UNCHANGED vvars

\* line 283
ReadGovernanceNonce ==
    /\ Running /\ Stmt.op = "governance_nonce"
    /\ governanceNonce' = GetTransactionCount(governance)
    /\ mpc' = mpc + 1
    /\ UNCHANGED <<env, accounts, chain, files, lenshubProject, txs, deployerNonce,
                   forward, bound, mraised>>
    /\ UNCHANGED vvars

\* one whitelisting statement of lines 285-371
Whitelist ==
    /\ Running /\ Stmt.op = "call"
    /\ LET tx == [from |-> governance,
                  nonce |-> governanceNonce,
                  op |-> "call",
                  to |-> bound[Stmt.target],
                  method |-> Stmt.method,
                  args |-> <<Resolve(Stmt.arg), Stmt.allow>>]
       IN  IF tx.nonce # GetTransactionCount(governance)
           THEN /\ txs' = Append(txs, Outcome(tx, "rejected"))
                /\ MRaise("ValueError: nonce")
                /\ UNCHANGED <<chain, governanceNonce>>
           ELSE \E status \in {"mined", "reverted"} :
                 /\ txs' = Append(txs, Outcome(tx, status))
                 /\ IF Reverts(status)
                    THEN /\ chain' = Mined(governance)
                         /\ MRaise("VirtualMachineError")
                         /\ UNCHANGED governanceNonce
                    ELSE /\ chain' = [Mined(governance) EXCEPT !.whitelist =
                                         @ \cup {[on |-> tx.to, method |-> tx.method,
                                                  address |-> tx.args[1],
                                                  allowed |-> tx.args[2]]}]
                         /\ governanceNonce' = NextNonce(governanceNonce)
                         /\ mpc' = mpc + 1
                         /\ UNCHANGED mraised
    /\ UNCHANGED <<env, accounts, files, lenshubProject, deployerNonce, forward, bound>>
    /\ UNCHANGED vvars

\* lines 373-399: the registry is written and main() returns
WriteAddresses ==
    /\ Running /\ Stmt.op = "addresses"
    /\ files' = [path \in DOMAIN files \cup {AddressesPath(env.NETWORK_ID)} |->
                    IF path = AddressesPath(env.NETWORK_ID) THEN lenshubAddresses
                    ELSE files[path]]
    /\ mpc' = mpc + 1
    /\ UNCHANGED <<env, accounts, chain, lenshubProject, txs, deployerNonce,
                   governanceNonce, forward, bound, mraised>>
    /\ UNCHANGED vvars

\* publish_source is not running
VerificationIdle ==
    /\ CONFIG = None
    /\ environ = None
    /\ _build = None
    /\ _flattener = None
    /\ pc = "idle"
    /\ api_key = None
    /\ contract_info = None
    /\ license_code = None
    /\ i = None
    /\ response = None
    /\ data = None
    /\ constructor_arguments = None
    /\ guid = None
    /\ raised = None
    /\ returned = None
    /\ log = <<>>

InitDeploy ==
    /\ VerificationIdle
    /\ env \in Environments
    /\ mpc = 1
    /\ accounts = NodeAccounts(env.NETWORK_TYPE)
    /\ chain \in { [nonce |-> [a \in AllAccounts |->
                                 IF a \in {"node-0", "key-d"} THEN n0
                                 ELSE IF a \in {"node-1", "key-g"} THEN g0
                                 ELSE 0],
                    code |-> {},
                    whitelist |-> {}] : n0 \in 0..MaxStartNonce, g0 \in 0..MaxStartNonce }
    /\ files \in { [path \in {ArtifactPath, OtherArtifactPath} |->
                      IF path = ArtifactPath THEN LensHubArtifact(runtime)
                      ELSE [contractName |-> "FollowNFT"]] :
                   runtime \in LensHubRuntimeCodes }
    /\ lenshubProject = None
    /\ txs = <<>>
    /\ deployerNonce = None
    /\ governanceNonce = None
    /\ forward = None
    /\ bound = [n \in LocalNames |-> NoAddress]
    /\ mraised = None

NextDeploy ==
    \/ Connect
    \/ LoadAccounts
    \/ ReadDeployerNonce
    \/ Deploy
    \/ PatchLensHubBytecode
    \/ PrecomputeAddresses
    \/ ReadGovernanceNonce
    \/ Whitelist
    \/ WriteAddresses

\* one run of main(); no one else sends transactions from the run's accounts
SpecDeploy == InitDeploy /\ [][NextDeploy]_vars

(***************************************************************************)
(* Properties of the deployer's nonces and of the forward addresses        *)
(***************************************************************************)
\* the transactions one account submitted, in order
TxsFrom(account) == SelectSeq(txs, LAMBDA tx : tx.from = account)

\* the transaction count the account had when the run began: no one else
\* sends from it, so it is the present count less the run's counted ones
StartCount(account) ==
    chain.nonce[account]
    - Len(SelectSeq(txs, LAMBDA tx : tx.from = account /\ tx.status # "rejected"))

\* the deployer's count has been read and the run has not failed
DeployerCounting == mpc \in 4..(Len(Program) + 1)

\* C4: the j-th transaction the deployer submitted (j = 0, 1, ...) carries
\* nonce n0 + j, n0 being the deployer's transaction count at the start, and
\* the local counter stands at n0 plus the number submitted: no nonce is
\* reused or skipped, none is rejected, and the nonces increase strictly.
C4_DeployerNonces ==
    accounts # <<>> =>
        LET sent == TxsFrom(deployer)
        IN  /\ \A j \in 1..Len(sent) :
                  /\ sent[j].nonce = StartCount(deployer) + (j - 1)
                  /\ sent[j].status # "rejected"
            /\ \A j, k \in 1..Len(sent) : j < k => sent[j].nonce < sent[k].nonce
            /\ DeployerCounting => deployerNonce = StartCount(deployer) + Len(sent)

\* C4 witness: all 22 deployments were submitted, starting from a count of 1
C4_Witness_AllDeployed ==
    /\ mpc = Len(Program) + 1
    /\ Len(TxsFrom(deployer)) = 22
    /\ TxsFrom(deployer)[22].nonce = 22
    /\ deployerNonce = 23

\* the contracts of one name that exist on the network
OnChain(contract) == {c \in chain.code : c.contract = contract}

\* the submitted deployments of one name
Deployments(contract) ==
    {k \in 1..Len(txs) : txs[k].op = "deploy" /\ txs[k].contract = contract}

\* C3: FollowNFT, CollectNFT and the proxy are created at the addresses
\* computed beforehand, each deployment being submitted with the nonce its
\* address was computed from; so LensHub was constructed with the addresses
\* the two NFT implementations really get, and both of them with the
\* address the proxy really gets.
C3_ForwardAddresses ==
    /\ \A c \in OnChain("FollowNFT") : c.address = forward.followNFTImplAddress
    /\ \A c \in OnChain("CollectNFT") : c.address = forward.collectNFTImplAddress
    /\ \A c \in OnChain("TransparentUpgradeableProxy") :
          c.address = forward.hubProxyAddress
    /\ \A k \in Deployments("FollowNFT") : txs[k].nonce = forward.followNFTNonce
    /\ \A k \in Deployments("CollectNFT") : txs[k].nonce = forward.collectNFTNonce
    /\ \A k \in Deployments("TransparentUpgradeableProxy") :
          txs[k].nonce = forward.hubProxyNonce
    /\ \A hub \in OnChain("LensHub") :
          /\ \A c \in OnChain("FollowNFT") : hub.args[1] = c.address
          /\ \A c \in OnChain("CollectNFT") : hub.args[2] = c.address
    /\ \A nft \in OnChain("FollowNFT") \cup OnChain("CollectNFT") :
          \A c \in OnChain("TransparentUpgradeableProxy") : nft.args[1] = c.address

\* C3 witness: the hub, both NFT implementations and the proxy exist
C3_Witness_ProxyDeployed ==
    /\ mpc > 0
    /\ chain.nonce["key-d"] > 0
    /\ OnChain("LensHub") # {}
    /\ OnChain("FollowNFT") # {}
    /\ OnChain("CollectNFT") # {}
    /\ OnChain("TransparentUpgradeableProxy") # {}

(***************************************************************************)
(* Properties of the library-placeholder patch                             *)
(***************************************************************************)
\* the statement of lines 100-120 has run: main() is past it, or has failed
\* in a deployment that comes after it
Patched ==
    \/ mpc \in 9..(Len(Program) + 1)
    \/ mpc = Len(Program) + 2 /\ Len(txs) >= 5

\* the runtime bytecode main() read, and the one it wrote back
BytecodeRead == lenshubProject.LensHub.deployedBytecode

BytecodeWritten == files[ArtifactPath].deployedBytecode

\* the positions (from 1) where `token` stands in `s`
Occurrences(s, token) ==
    {p \in 1..(Len(s) - Len(token) + 1) : SubSeq(s, p, p + Len(token) - 1) = token}

\* each placeholder with the library it stands for
Links ==
    { <<PublishingLogicToken, "PublishingLogic">>,
      <<InteractionLogicToken, "InteractionLogic">>,
      <<ProfileTokenURILogicToken, "ProfileTokenURILogic">> }

\* the positions of `s` that lie inside an occurrence of a placeholder
InPlaceholder(s) ==
    {p + d : p \in UNION {Occurrences(s, link[1]) : link \in Links}, d \in 0..39}

\* C11: after the patch of the hub's runtime bytecode string, none of the
\* three placeholders occurs in it any more; where a placeholder stood there
\* now stands, at every one of its occurrences alike, the address of the
\* deployed library it names, in lower case and without "0x"; every character
\* outside the placeholders is as it was, so a placeholder that does not occur
\* changes nothing; and the patch itself never ends the run.
C11_PlaceholderPatch ==
    Patched =>
        /\ Len(BytecodeWritten) = Len(BytecodeRead)
        /\ \A p \in (1..Len(BytecodeRead)) \ InPlaceholder(BytecodeRead) :
              BytecodeWritten[p] = BytecodeRead[p]
        /\ \A link \in Links :
              /\ Occurrences(BytecodeWritten, link[1]) = {}
              /\ Cardinality(OnChain(link[2])) = 1
              /\ \A p \in Occurrences(BytecodeRead, link[1]) :
                    \A library \in OnChain(link[2]) :
                        <<"0", "x">> \o SubSeq(BytecodeWritten, p, p + 39)
                            = Lower(HexAddress(library.address))
        /\ Len(txs) = 4 => mraised = None

\* C11 witness: a bytecode with PublishingLogic's placeholder twice and the
\* other two placeholders absent has been patched, and the run goes on
C11_Witness_TwiceAndAbsent ==
    /\ mpc = 9
    /\ mraised = None
    /\ Cardinality(Occurrences(BytecodeRead, PublishingLogicToken)) = 2
    /\ Occurrences(BytecodeRead, InteractionLogicToken) = {}
    /\ Occurrences(BytecodeRead, ProfileTokenURILogicToken) = {}
    /\ BytecodeWritten # BytecodeRead

(***************************************************************************)
(* Properties of a failed transaction and of the address registry          *)
(***************************************************************************)
\* the registry file of the run
RegistryPath == AddressesPath(env.NETWORK_ID)

RegistryWritten == RegistryPath \in DOMAIN files

\* the submitted transactions of one kind
Submitted(op) == SelectSeq(txs, LAMBDA tx : tx.op = op)

\* C12: a transaction that was rejected or reverted (or a deployment whose
\* source could not be published) is the last one main() submits, and the
\* registry is not written in that run; the registry exists only when all 22
\* deployments and all 12 whitelisting calls were submitted and succeeded;
\* and once the registry is written no file is written again.
C12_AbortSemantics ==
    /\ [](/\ \A k \in 1..Len(txs) :
                txs[k].status # "mined" => k = Len(txs) /\ ~RegistryWritten
          /\ RegistryWritten =>
                /\ Len(Submitted("deploy")) = 22
                /\ Len(Submitted("call")) = 12
                /\ Len(txs) = 34
                /\ \A k \in 1..Len(txs) : txs[k].status = "mined"
                /\ mraised = None)
    /\ [][RegistryWritten => files' = files]_vars

\* C12 witness: the last whitelisting call reverted after 33 successful
\* transactions; main() has raised and there is no registry
C12_Witness_LastCallReverted ==
    /\ mpc > 0
    /\ Len(txs) = 34
    /\ txs[34].op = "call"
    /\ txs[34].status = "reverted"
    /\ mraised = "VirtualMachineError"
    /\ DOMAIN files = {ArtifactPath, OtherArtifactPath}

(***************************************************************************)
(* Properties of the governance phase                                      *)
(***************************************************************************)
\* the addresses at which a contract of the run exists
DeployedAddresses == {c.address : c \in chain.code}

\* the name of the contract that exists at an address
ContractAt(address) == (CHOOSE c \in chain.code : c.address = address).contract

\* what is to be whitelisted: the method, the contract it is called on and
\* the contract it allows
WhitelistPlan ==
    { <<"whitelistCollectModule", "TransparentUpgradeableProxy", module>> :
        module \in {"FeeCollectModule", "LimitedFeeCollectModule",
                    "TimedFeeCollectModule", "LimitedTimedFeeCollectModule",
                    "RevertCollectModule", "FreeCollectModule"} }
    \cup { <<"whitelistFollowModule", "TransparentUpgradeableProxy", module>> :
        module \in {"FeeFollowModule", "ProfileFollowModule", "RevertFollowModule"} }
    \cup { <<"whitelistReferenceModule", "TransparentUpgradeableProxy",
             "FollowerOnlyReferenceModule">>,
           <<"whitelistCurrency", "ModuleGlobals", "Currency">>,
           <<"whitelistProfileCreator", "TransparentUpgradeableProxy",
             "ProfileCreationProxy">> }

\* the positions in txs of the whitelisting calls
CallsAt == {k \in 1..Len(txs) : txs[k].op = "call"}

\* the entry of the plan a whitelisting call carries out
PlanOf(tx) == <<tx.method, ContractAt(tx.to), ContractAt(tx.args[1])>>

\* the run has returned from main()
Succeeded == mpc = Len(Program) + 1

\* C13: a whitelisting call is submitted only when the 22 deployments have
\* all been mined; the j-th call (j = 0, 1, ...) is signed by the governance
\* account with nonce g0 + j, g0 being that account's transaction count at
\* the start of the phase; it passes True as the allow flag; the contract it
\* is called on and the contract it allows were both deployed in this run;
\* no entry of the whitelisting plan is carried out twice, and after a
\* successful run every one of its 12 entries has been carried out.
C13_GovernancePhase ==
    accounts # <<>> =>
        /\ \A k \in CallsAt :
              LET tx == txs[k]
                  j == Cardinality({c \in CallsAt : c < k})
              IN  /\ k = 22 + j + 1
                  /\ \A d \in 1..22 : txs[d].op = "deploy" /\ txs[d].status = "mined"
                  /\ tx.from = governance
                  /\ tx.from # deployer
                  /\ tx.nonce = StartCount(governance) + j
                  /\ tx.status # "rejected"
                  /\ tx.args[2] = TRUE
                  /\ tx.to \in DeployedAddresses
                  /\ tx.args[1] \in DeployedAddresses
                  /\ PlanOf(tx) \in WhitelistPlan
                  /\ \A c \in CallsAt : PlanOf(txs[c]) = PlanOf(tx) => c = k
        /\ Succeeded =>
              /\ {PlanOf(txs[k]) : k \in CallsAt} = WhitelistPlan
              /\ \A entry \in WhitelistPlan :
                    Cardinality({w \in chain.whitelist :
                                    /\ w.method = entry[1]
                                    /\ ContractAt(w.on) = entry[2]
                                    /\ ContractAt(w.address) = entry[3]
                                    /\ w.allowed}) = 1
              /\ Cardinality(chain.whitelist) = 12

\* C13 witness: the run returned, the governance account having started
\* with a transaction count of 1 and sent its 12 calls with nonces 1..12
C13_Witness_TwelveCalls ==
    /\ Succeeded
    /\ Cardinality(CallsAt) = 12
    /\ txs[23].nonce = 1
    /\ txs[34].nonce = 12
    /\ governanceNonce = 13

(***************************************************************************)
(* Properties of the checks publish_source makes before any request        *)
(***************************************************************************)
\* the explorer URL is not configured
ExplorerUnset == "explorer" \notin DOMAIN CONFIG.active_network

\* the configured URL names none of the known explorers
ExplorerUnknown ==
    /\ ~ExplorerUnset
    /\ \A k \in 1..Len(_explorer_tokens) :
          Occurrences(CONFIG.active_network.explorer, _explorer_tokens[k].k) = {}

\* the variable named for the configured explorer is absent or empty
ApiKeyMissing ==
    /\ ~ExplorerUnset
    /\ \E k \in 1..Len(_explorer_tokens) :
          /\ Occurrences(CONFIG.active_network.explorer, _explorer_tokens[k].k) # {}
          /\ \A j \in 1..(k - 1) :
                Occurrences(CONFIG.active_network.explorer, _explorer_tokens[j].k) = {}
          /\ \/ _explorer_tokens[k].v \notin DOMAIN environ
             \/ environ[_explorer_tokens[k].v] = ""

LanguageUnsupported == _build.language # "Solidity"

PreflightFails ==
    ExplorerUnset \/ ExplorerUnknown \/ ApiKeyMissing \/ LanguageUnsupported

\* C14: when the explorer URL is unset or names no known explorer, when the
\* API key variable of the explorer is absent or empty, or when the language
\* is not Solidity, no request is ever sent and nothing is returned: the run
\* stands before the checks or has raised ValueError or TypeError, having
\* gone past the configuration checks only when the language alone is at
\* fault; and every step it takes raises or leads from the configuration
\* checks to the language check, so no check is made twice.
C14_PreflightFailures ==
    /\ [](PreflightFails =>
            /\ log = <<>>
            /\ returned = None
            /\ pc \in {"check_conditions", "get_verification_info", "raised"}
            /\ pc = "get_verification_info" =>
                  ~(ExplorerUnset \/ ExplorerUnknown \/ ApiKeyMissing)
            /\ pc = "raised" => raised.type \in {"ValueError", "TypeError"}
            /\ (ExplorerUnset \/ ExplorerUnknown \/ ApiKeyMissing) /\ pc = "raised" =>
                  raised.type = "ValueError" /\ api_key = None)
    /\ [][PreflightFails =>
            \/ pc' = "raised"
            \/ pc = "check_conditions" /\ pc' = "get_verification_info"]_vars

\* C14 witness: the bscscan explorer with an empty BSCSCAN_TOKEN; the run
\* raised without a request
C14_Witness_EmptyApiKey ==
    /\ pc = "raised"
    /\ CONFIG.active_network = [id |-> "live", explorer |-> url_bscscan]
    /\ "BSCSCAN_TOKEN" \in DOMAIN environ
    /\ environ.BSCSCAN_TOKEN = ""
    /\ _build.language = "Solidity"
    /\ raised.type = "ValueError"
    /\ log = <<>>

(***************************************************************************)
(* Properties of the order of the explorer requests                        *)
(***************************************************************************)
\* the phase a request belongs to
PhaseOf(action) ==
    CASE action = "txlist" -> 1
      [] action = "verifysourcecode" -> 2
      [] action = "checkverifystatus" -> 3

\* the explorer answered request k with HTTP 200 and status 1
AcceptedAt(k) == log[k].status_code = 200 /\ log[k].status = "1"

\* C15: the requests sent so far are txlist requests, then at most one
\* verifysourcecode, then checkverifystatus requests; verifysourcecode comes
\* right after a txlist answer with status 1, which is the only such answer;
\* checkverifystatus requests come only after a verifysourcecode answer with
\* status 1 and carry the request identifier of that answer; and a run that
\* has returned its verdict has sent at least one txlist, exactly one
\* verifysourcecode and at least one checkverifystatus request.
C15_PhaseOrdering ==
    /\ \A j, k \in 1..Len(log) :
          j < k => PhaseOf(log[j].action) <= PhaseOf(log[k].action)
    /\ Cardinality(Sent("verifysourcecode")) <= 1
    /\ \A k \in Sent("txlist") : AcceptedAt(k) => \A j \in Sent("txlist") : j <= k
    /\ \A k \in Sent("verifysourcecode") :
          /\ k > 1
          /\ log[k - 1].action = "txlist"
          /\ AcceptedAt(k - 1)
    /\ \A k \in Sent("checkverifystatus") :
          \E j \in Sent("verifysourcecode") :
              /\ j < k
              /\ AcceptedAt(j)
              /\ log[k].params.guid = JStr(log[j].result)
    /\ pc = "returned" =>
          /\ returned \in BOOLEAN
          /\ Sent("txlist") # {}
          /\ Cardinality(Sent("verifysourcecode")) = 1
          /\ Sent("checkverifystatus") # {}

\* C15 witness: a run that returned True after two txlist requests, the
\* submission and two status checks
C15_Witness_Verified ==
    /\ pc = "returned"
    /\ returned = TRUE
    /\ Len(log) = 5
    /\ [k \in 1..5 |-> log[k].action] =
          <<"txlist", "txlist", "verifysourcecode", "checkverifystatus",
            "checkverifystatus">>

(***************************************************************************)
(* Properties of the termination of publish_source                         *)
(***************************************************************************)
\* publish_source has returned or raised
Terminal == pc \in {"returned", "raised"}

\* the explorer has answered a status check with something else than
\* HTTP 200 and "Pending in queue"
AnsweredFinally ==
    \E k \in Sent("checkverifystatus") :
        log[k].status_code # 200 \/ log[k].result # Pending

\* C16: the indexing poll sends at most MaxIndexingLoops + 1 requests and is
\* always left, whatever the explorer answers; the status poll has no cap:
\* after any number of status checks, as long as every answer was
\* "Pending in queue" the run is still polling and has not terminated, and
\* the first other answer ends it; so the run terminates provided that the
\* explorer, whenever a status poll is under way, eventually gives such an
\* answer.
C16_Termination ==
    /\ [](Cardinality(Sent("txlist")) <= MaxIndexingLoops + 1)
    /\ [](pc = "txlist" => Cardinality(Sent("txlist")) <= MaxIndexingLoops)
    /\ ((pc = "txlist") ~> (pc # "txlist"))
    /\ [](Sent("checkverifystatus") # {} /\ ~AnsweredFinally =>
            pc = "checkverifystatus" /\ ~Terminal)
    /\ [](AnsweredFinally => Terminal)
    /\ (((pc = "checkverifystatus") ~> AnsweredFinally) => <>Terminal)

\* C16 witness: three status checks were all answered "Pending in queue"
\* and the run is still polling
C16_Witness_StillPolling ==
    /\ pc = "checkverifystatus"
    /\ Cardinality(Sent("checkverifystatus")) = 3
    /\ ~AnsweredFinally
    /\ ~Terminal

(***************************************************************************)
(* Properties of the addresses passed to the transactions                  *)
(***************************************************************************)
\* a value passed to a transaction is the address of a contract: one
\* created by a sender with a nonce, or the address of none
IsContractAddress(value) ==
    "unbound" \in DOMAIN value \/ {"sender", "nonce"} \subseteq DOMAIN value

\* the contract addresses transaction k passes: among the arguments of a
\* deployment, or the contract a call allows and the contract called
ReferencedBy(k) ==
    IF txs[k].op = "call"
    THEN {txs[k].args[1], txs[k].to}
    ELSE {txs[k].args[a] : a \in {a \in 1..Len(txs[k].args) :
                                     IsContractAddress(txs[k].args[a])}}

\* a contract was created at the address by a transaction before the k-th
DeployedBefore(address, k) ==
    \E d \in 1..(k - 1) :
        /\ txs[d].op = "deploy"
        /\ txs[d].status = "mined"
        /\ CreateAddress(txs[d].from, txs[d].nonce) = address

\* the statements of lines 123-129 have run
Precomputed ==
    \/ mpc \in 10..(Len(Program) + 1)
    \/ mpc = Len(Program) + 2 /\ Len(txs) >= 5

\* each address computed beforehand with the contract it is meant for
ForwardPlan ==
    { <<forward.followNFTImplAddress, "FollowNFT">>,
      <<forward.collectNFTImplAddress, "CollectNFT">>,
      <<forward.hubProxyAddress, "TransparentUpgradeableProxy">> }

\* the address is one of the three computed from a nonce the deployer has
\* not used when transaction k is submitted, and whatever the deployer
\* later deploys with that nonce is the contract the address is meant for
NonceDerivable(address, k) ==
    /\ Precomputed
    /\ \E plan \in ForwardPlan :
          /\ plan[1] = address
          /\ address.sender = deployer
          /\ \A d \in 1..(k - 1) :
                txs[d].from = deployer => txs[d].nonce < address.nonce
          /\ \A d \in 1..Len(txs) :
                txs[d].op = "deploy" /\ txs[d].from = deployer
                    /\ txs[d].nonce = address.nonce
                => txs[d].contract = plan[2]
          /\ Succeeded => \E c \in OnChain(plan[2]) : c.address = address

\* C17: every contract address a deployment or a whitelisting call passes
\* (and the contract a call is made on) is the address of a contract that an
\* earlier transaction of the run created, or one of the three addresses
\* computed from a deployer nonce that is still to come and that the
\* deployment of the very contract referred to then uses; none is the
\* address of no contract.
C17_DependencyOrdering ==
    accounts # <<>> =>
        \A k \in 1..Len(txs) :
            \A address \in ReferencedBy(k) :
                /\ address # NoAddress
                /\ DeployedBefore(address, k) \/ NonceDerivable(address, k)

\* C17 witness: the run returned; the hub implementation was deployed with
\* the two addresses of contracts created after it, and a module with the
\* address of the proxy created before it
C17_Witness_ForwardAndBackward ==
    /\ Succeeded
    /\ ~DeployedBefore(txs[5].args[1], 5)
    /\ NonceDerivable(txs[5].args[1], 5)
    /\ NonceDerivable(txs[6].args[1], 6)
    /\ txs[11].contract = "FeeCollectModule"
    /\ DeployedBefore(txs[11].args[1], 11)
    /\ Cardinality(ReferencedBy(11)) = 2

(***************************************************************************)
(* Properties of the order of the license families                         *)
(***************************************************************************)
\* the identifier spells the word, in any mix of cases
Spells(identifier, word) ==
    \E k \in 0..(Len(identifier) - Len(word)) :
        \A j \in 1..Len(word) : identifier[k + j] \in {word[j], UpperChar(word[j])}

\* C18 as stated: an identifier that spells "agpl" or "lgpl", and neither
\* "unlicensed" nor "mit", is given neither code 4 (GPL-2.0) nor code 5
\* (GPL-3.0).
C18_NeverPlainGpl ==
    ( /\ LicenseSelected
      /\ Spells(_flattener.license, kw_agpl) \/ Spells(_flattener.license, kw_lgpl)
      /\ ~Spells(_flattener.license, kw_unlicensed)
      /\ ~Spells(_flattener.license, kw_mit) )
    => license_code \notin {4, 5}

(***************************************************************************)
(* Properties of the address registry                                      *)
(***************************************************************************)
\* the contract each role name of the registry denotes
RoleContract ==
    [role \in DOMAIN lenshubAddresses |->
        CASE role = "lensHub proxy" -> "TransparentUpgradeableProxy"
          [] role = "lensHub impl:" -> "LensHub"
          [] role = "publishing logic lib" -> "PublishingLogic"
          [] role = "interaction logic lib" -> "InteractionLogic"
          [] role = "follow NFT impl" -> "FollowNFT"
          [] role = "collect NFT impl" -> "CollectNFT"
          [] role = "currency" -> "Currency"
          [] role = "lens periphery" -> "LensPeriphery"
          [] role = "module globals" -> "ModuleGlobals"
          [] role = "fee collect module" -> "FeeCollectModule"
          [] role = "limited fee collect module" -> "LimitedFeeCollectModule"
          [] role = "timed fee collect module" -> "TimedFeeCollectModule"
          [] role = "limited timed fee collect module" -> "LimitedTimedFeeCollectModule"
          [] role = "revert collect module" -> "RevertCollectModule"
          [] role = "free collect module" -> "FreeCollectModule"
          [] role = "fee follow module" -> "FeeFollowModule"
          [] role = "profile follow module" -> "ProfileFollowModule"
          [] role = "revert follow module" -> "RevertFollowModule"
          [] role = "follower only reference module" -> "FollowerOnlyReferenceModule"
          [] role = "UI data provider" -> "UIDataProvider"
          [] role = "Profile creation proxy" -> "ProfileCreationProxy"]

\* the registry as it stands in the file
Registry == files[RegistryPath]

\* C19 as stated: after a successful run the registry file exists, every
\* contract created in the run (the three logic libraries among them) has an
\* entry holding its address, and every entry holds the address at which
\* the contract it names exists on the network.
C19_RegistryComplete ==
    Succeeded =>
        /\ RegistryWritten
        /\ \A c \in chain.code :
              \E role \in DOMAIN Registry : Registry[role] = c.address
        /\ \A library \in {"PublishingLogic", "InteractionLogic", "ProfileTokenURILogic"} :
              \E role \in DOMAIN Registry :
                  \E c \in OnChain(library) : Registry[role] = c.address
        /\ \A role \in DOMAIN Registry :
              \E c \in OnChain(RoleContract[role]) : Registry[role] = c.address

(***************************************************************************)
(* Properties of the bytecode the hub implementation is deployed with      *)
(***************************************************************************)
\* C20 as stated: when the deployment of LensHub is submitted, the three
\* logic libraries have been deployed, and the creation bytecode of the
\* LensHub artifact, which is what the transaction carries, contains none
\* of the three placeholders.
C20_PlaceholdersResolved ==
    \A k \in Deployments("LensHub") :
        /\ \A link \in Links :
              \E d \in 1..(k - 1) :
                  /\ txs[d].op = "deploy"
                  /\ txs[d].contract = link[2]
                  /\ txs[d].status = "mined"
        /\ txs[k].code = lenshubProject.LensHub.bytecode
        /\ \A link \in Links :
              /\ Occurrences(txs[k].code, link[1]) = {}
              /\ Occurrences(files[ArtifactPath].bytecode, link[1]) = {}

(***************************************************************************)
(* Frame of the rewrite of the LensHub artifact                            *)
(***************************************************************************)
\* the step of lines 100-120
PatchStep == Running /\ Stmt.op = "patch" /\ mpc' = mpc + 1

\* the fields of the LensHub artifact other than the one the patch is for
OtherFields(artifact) == DOMAIN artifact \ {"deployedBytecode"}

\* C21: the step that rewrites build/contracts/LensHub.json leaves the set
\* of files and the set of fields of the artifact as they were, writes
\* every field other than deployedBytecode (bytecode, contractName,
\* compiler, sourcePath and language among them) back with the value it had
\* when read, and modifies no other artifact file.
C21_PatchFrame ==
    [][PatchStep =>
          /\ DOMAIN files' = DOMAIN files
          /\ DOMAIN files'[ArtifactPath] = DOMAIN files[ArtifactPath]
          /\ {"bytecode", "contractName", "compiler", "sourcePath", "language"}
                \subseteq OtherFields(files[ArtifactPath])
          /\ \A field \in OtherFields(files[ArtifactPath]) :
                files'[ArtifactPath][field] = files[ArtifactPath][field]
          /\ \A path \in DOMAIN files \ {ArtifactPath} :
                files'[path] = files[path]]_vars

\* C21 witness: the artifact has been rewritten with a runtime bytecode
\* that differs from the one read, its creation bytecode is the one read
\* and still holds a placeholder, and the other artifact is on disk
C21_Witness_Rewritten ==
    /\ mpc = 9
    /\ files[ArtifactPath].deployedBytecode # lenshubProject.LensHub.deployedBytecode
    /\ files[ArtifactPath].bytecode = lenshubProject.LensHub.bytecode
    /\ Occurrences(files[ArtifactPath].bytecode, PublishingLogicToken) # {}
    /\ files[ArtifactPath].compiler = lenshubProject.LensHub.compiler
    /\ OtherArtifactPath \in DOMAIN files

====
